---- MODULE Spec2Model ----
(***************************************************************************)
(* Model of the registry / tag compiler of src/src/main.rs.                *)
(*                                                                         *)
(* Strings are sequences of bytes (ASCII codes), so that ordering,         *)
(* prefixing, joining and character replacement are computed, not assumed. *)
(* A BTreeSet is a strictly increasing sequence, a BTreeMap a sequence of  *)
(* [key, val] records with strictly increasing keys; a HashMap is a        *)
(* function (the code never iterates over one).                            *)
(***************************************************************************)
EXTENDS Integers, Sequences, FiniteSets

VARIABLES
    tree,              \* the input: set of files below the data root
    content,           \* content of every tag file of the tree
    run,               \* 1 or 2: which invocation of main is running
    pc,                \* position of main
    pending,           \* files the current directory walk has not yielded yet
    registries,        \* compile_registries: BTreeMap<String, BTreeSet<String>>
    ri,                \* compile_registries: position of the write loop
    packets,           \* compile_registries: the buffer built for each registry
    mappings,          \* main: registry_mappings
    tags_packet_data,  \* compile_tags: BTreeMap<String, BTreeMap<String, Vec<i32>>>
    outFiles,          \* the output directory: file name -> bytes
    swallowed,         \* a walk error was dropped by filter_map(|e| e.ok())
    envErr,            \* the environment failed some I/O call in this run
    readOk,            \* the tag files fs::read_to_string has returned Ok for
    prev,              \* outcome of the previous invocation (run 2 only)
    vx, vpre, vbuf     \* write_varint applied on its own: value, buffer before, buffer after

vars == <<tree, content, run, pc, pending, registries, ri, packets, mappings,
          tags_packet_data, outFiles, swallowed, envErr, readOk, prev, vx, vpre, vbuf>>

----------------------------------------------------------------------------
(* Bounds of the model *)

MaxFiles == 3
VarintWindow == 12

----------------------------------------------------------------------------
(* Bytes and strings *)

COLON == 58
SLASH == 47
BACKSLASH == 92
UNDERSCORE == 95
HASH == 35

\* "minecraft:"
MC == <<109, 105, 110, 101, 99, 114, 97, 102, 116, COLON>>
\* "tags"
TAGS == <<116, 97, 103, 115>>
\* ".bin"
DOTBIN == <<46, 98, 105, 110>>
\* "packet_tags.bin"
PACKET_TAGS == <<112, 97, 99, 107, 101, 116, UNDERSCORE, 116, 97, 103, 115>> \o DOTBIN

Range(s) == {s[i] : i \in 1..Len(s)}

Min(a, b) == IF a <= b THEN a ELSE b

\* Ord for String: byte-wise lexicographic order
StrLess(a, b) ==
    \E k \in 0..Min(Len(a), Len(b)) :
        /\ \A i \in 1..k : a[i] = b[i]
        /\ \/ k = Len(a) /\ k < Len(b)
           \/ k < Len(a) /\ k < Len(b) /\ a[k + 1] < b[k + 1]

\* str::replace for one-byte patterns
Replace(s, from, to) == [i \in 1..Len(s) |-> IF s[i] = from THEN to ELSE s[i]]

\* a relative path as text: its components joined by '/'
RECURSIVE JoinSlash(_)
JoinSlash(comps) ==
    IF Len(comps) = 0 THEN <<>>
    ELSE IF Len(comps) = 1 THEN comps[1]
    ELSE comps[1] \o <<SLASH>> \o JoinSlash(Tail(comps))

\* format!("minecraft:{}", s)
Namespaced(s) == MC \o s

----------------------------------------------------------------------------
(* Binary encoding primitives *)

\* the loop of write_varint on an i32: value & 0x7F is value % 128 and the
\* arithmetic shift value >>= 7 is the floor division by 128
RECURSIVE write_varint_6bit(_, _)
write_varint_6bit(buf, value) ==
    LET temp == value % 64
        rest == value \div 128
    IN  IF rest /= 0 THEN write_varint_6bit(Append(buf, temp + 128), rest)
        ELSE Append(buf, temp)

RECURSIVE write_varint(_, _)
write_varint(buf, value) ==
    LET temp == value % 128
        rest == value \div 128
    IN  IF rest /= 0 THEN write_varint(Append(buf, temp + 128), rest)
        ELSE Append(buf, temp)

write_string(buf, s) == write_varint(buf, Len(s)) \o s

----------------------------------------------------------------------------
(* BTreeSet<String> and BTreeMap<String, V> *)

BTreeSetInsertPush(s, x) == IF x \in Range(s) THEN s ELSE Append(s, x)

BTreeSetInsert(s, x) ==
    IF x \in Range(s) THEN s
    ELSE LET k == Cardinality({i \in 1..Len(s) : StrLess(s[i], x)})
         IN  SubSeq(s, 1, k) \o <<x>> \o SubSeq(s, k + 1, Len(s))

BTreeMapHas(m, key) == \E i \in 1..Len(m) : m[i].key = key

BTreeMapGet(m, key) == m[CHOOSE i \in 1..Len(m) : m[i].key = key].val

BTreeMapPutPush(m, key, val) ==
    IF BTreeMapHas(m, key)
    THEN [i \in 1..Len(m) |-> IF m[i].key = key THEN [key |-> key, val |-> val] ELSE m[i]]
    ELSE Append(m, [key |-> key, val |-> val])

\* insert: replaces the value of a present key, keeps the keys sorted
BTreeMapPut(m, key, val) ==
    IF BTreeMapHas(m, key)
    THEN [i \in 1..Len(m) |-> IF m[i].key = key THEN [key |-> key, val |-> val] ELSE m[i]]
    ELSE LET k == Cardinality({i \in 1..Len(m) : StrLess(m[i].key, key)})
         IN  SubSeq(m, 1, k) \o <<[key |-> key, val |-> val]>> \o SubSeq(m, k + 1, Len(m))

\* entry(key).or_default(): the value of key, or the empty collection
BTreeMapOrDefault(m, key) == IF BTreeMapHas(m, key) THEN BTreeMapGet(m, key) ELSE <<>>

----------------------------------------------------------------------------
(* The input tree *)

JSON == <<106, 115, 111, 110>>
TXT == <<116, 120, 116>>

A == <<97>>
B == <<98>>
AB == <<97, 98>>
A_B == <<97, UNDERSCORE, 98>>
T == <<116>>

\* a file below the data root: the directories leading to it, its stem and
\* its extension
File(dir, stem, ext) == [dir |-> dir, stem |-> stem, ext |-> ext]

Candidates ==
    { File(<<A>>, B, JSON), File(<<A>>, A, JSON), File(<<A>>, AB, JSON),
      File(<<A>>, A, TXT),
      File(<<A, B>>, A, JSON), File(<<A_B>>, B, JSON),
      File(<<>>, A, JSON),
      File(<<TAGS, A>>, T, JSON), File(<<TAGS, A, B>>, T, JSON),
      File(<<TAGS, A_B>>, T, JSON),
      File(<<TAGS>>, T, JSON) }

\* the values a tag file may list
V_A == Namespaced(A)
V_B == Namespaced(B)
V_UNKNOWN == Namespaced(T)
V_INDIRECT == <<HASH>> \o Namespaced(A)

\* what a tag file holds: text that is no JSON, a JSON object without
\* `values`, a `values` list with an item that is no string (values: the
\* strings among its items), or a well-formed list of strings
Contents ==
    { [kind |-> "invalid_json", values |-> <<>>],
      [kind |-> "no_values", values |-> <<>>],
      [kind |-> "bad_values", values |-> <<V_A>>],
      [kind |-> "ok", values |-> <<V_B, V_INDIRECT, V_UNKNOWN, V_A, V_B>>],
      [kind |-> "ok", values |-> <<V_A, V_INDIRECT, V_UNKNOWN>>] }

IsJson(f) == f.ext = JSON

\* the files WalkDir::new(base.join("tags")) yields
UnderTags(t) == {f \in t : Len(f.dir) >= 1 /\ f.dir[1] = TAGS}

----------------------------------------------------------------------------
(* compile_registries *)

\* path.components().any(|c| c == "tags"); a file name has an extension and
\* is never "tags"
InTagsFolder(f) == \E i \in 1..Len(f.dir) : f.dir[i] = TAGS

\* parent.to_string_lossy().replace("\\", "/"), namespaced
RegistryName(f) == Namespaced(Replace(JoinSlash(f.dir), BACKSLASH, SLASH))

\* file_stem, namespaced
EntryName(f) == Namespaced(f.stem)

\* relative.parent() is Some(..) for every relative path that names a file,
\* Some("") for a file at the root
HasParent(f) == TRUE

\* registries.entry(full_reg).or_default().insert(full_entry)
Collect(regs, f) ==
    BTreeMapPut(regs, RegistryName(f),
                BTreeSetInsert(BTreeMapOrDefault(regs, RegistryName(f)), EntryName(f)))

\* one iteration of the walk loop
ScanFile(regs, f) ==
    IF IsJson(f) /\ ~InTagsFolder(f) /\ HasParent(f) THEN Collect(regs, f) ELSE regs

\* the entries loop: String(entry) . 0x00 for each entry, in iteration order
RECURSIVE WriteEntries(_, _)
WriteEntries(buf, entries) ==
    IF Len(entries) = 0 THEN buf
    ELSE WriteEntries(Append(write_string(buf, Head(entries)), 0), Tail(entries))

\* String(reg_id) . VarInt(entries.len()) . entries
RegistryPacket(reg_id, entries) ==
    WriteEntries(write_varint(write_string(<<>>, reg_id), Len(entries)), entries)

\* id_map.insert(entry_id, idx) over entries.iter().enumerate()
IdMap(entries) ==
    [e \in Range(entries) |-> (CHOOSE i \in 1..Len(entries) :
        entries[i] = e /\ \A j \in (i + 1)..Len(entries) : entries[j] /= e) - 1]

\* format!("{}.bin", reg_id.replace(":", "_").replace("/", "_"))
FileName(reg_id) ==
    Replace(Replace(reg_id, COLON, UNDERSCORE), SLASH, UNDERSCORE) \o DOTBIN

\* HashMap::insert and fs::write: both overwrite
Put(m, key, val) == [k \in DOMAIN m \cup {key} |-> IF k = key THEN val ELSE m[k]]

Empty == [k \in {} |-> 0]

----------------------------------------------------------------------------
(* compile_tags *)

\* relative: the path below the tag root
Relative(f) == Tail(f.dir)

\* "minecraft:" + the first component of the path below the tag root
TagRegistry(f) == Namespaced(Relative(f)[1])

\* the rest of the path, extension stripped, joined by '/', namespaced
TagName(f) ==
    Namespaced(Replace(JoinSlash(Tail(Relative(f)) \o <<f.stem>>), BACKSLASH, SLASH))

KnownRegistryAny(maps, reg) == TRUE

\* registry_mappings.contains_key(&full_reg)
KnownRegistry(maps, reg) == reg \in DOMAIN maps

ParseTagFileLenient(c) == IF c.kind \in {"ok", "bad_values"} THEN c.values ELSE <<>>

\* serde_json::from_str(&content).unwrap_or(TagFile { values: vec![] })
ParseTagFile(c) == IF c.kind = "ok" THEN c.values ELSE <<>>

RECURSIVE ResolveIdsZero(_, _, _)
ResolveIdsZero(ids, values, id_map) ==
    IF Len(values) = 0 THEN ids
    ELSE LET value == Head(values)
         IN  IF ~(Len(value) > 0 /\ value[1] = HASH)
             THEN ResolveIdsZero(Append(ids, IF value \in DOMAIN id_map THEN id_map[value] ELSE 0),
                                 Tail(values), id_map)
             ELSE ResolveIdsZero(ids, Tail(values), id_map)

\* the loop over parsed.values: direct references that resolve are pushed
RECURSIVE ResolveIds(_, _, _)
ResolveIds(ids, values, id_map) ==
    IF Len(values) = 0 THEN ids
    ELSE LET value == Head(values)
         IN  IF ~(Len(value) > 0 /\ value[1] = HASH) /\ value \in DOMAIN id_map
             THEN ResolveIds(Append(ids, id_map[value]), Tail(values), id_map)
             ELSE ResolveIds(ids, Tail(values), id_map)

\* tags_packet_data.entry(full_reg).or_default().insert(full_tag, ids)
RecordTag(data, reg, tag, ids) ==
    BTreeMapPut(data, reg, BTreeMapPut(BTreeMapOrDefault(data, reg), tag, ids))

RECURSIVE WriteIds(_, _)
WriteIds(buf, ids) ==
    IF Len(ids) = 0 THEN buf ELSE WriteIds(write_varint(buf, Head(ids)), Tail(ids))

\* String(tag) . VarInt(ids.len()) . ids, for each tag in iteration order
RECURSIVE WriteTags(_, _)
WriteTags(buf, tags) ==
    IF Len(tags) = 0 THEN buf
    ELSE WriteTags(WriteIds(write_varint(write_string(buf, Head(tags).key),
                                         Len(Head(tags).val)),
                            Head(tags).val),
                   Tail(tags))

\* String(registry) . VarInt(tags.len()) . tags, for each registry
RECURSIVE WriteTagRegistries(_, _)
WriteTagRegistries(buf, data) ==
    IF Len(data) = 0 THEN buf
    ELSE WriteTagRegistries(WriteTags(write_varint(write_string(buf, Head(data).key),
                                                   Len(Head(data).val)),
                                      Head(data).val),
                            Tail(data))

\* VarInt(registry count) . registries
TagsPacket(data) == WriteTagRegistries(write_varint(<<>>, Len(data)), data)

----------------------------------------------------------------------------
(* main: the state after construction and the steps of one invocation *)

NoPrev == [pc |-> "none", outFiles |-> Empty, mappings |-> Empty, clean |-> FALSE]

\* main up to the call of compile_registries: the output directory is
\* cleared and the mapping is empty
Fresh ==
    /\ pc = "reg_walk"
    /\ pending = tree
    /\ registries = <<>>
    /\ ri = 1
    /\ packets = Empty
    /\ mappings = Empty
    /\ tags_packet_data = <<>>
    /\ outFiles = Empty
    /\ swallowed = FALSE
    /\ envErr = FALSE
    /\ readOk = {}

Init ==
    /\ tree \in {t \in SUBSET Candidates : Cardinality(t) <= MaxFiles}
    /\ content \in [{f \in UnderTags(tree) : IsJson(f)} -> Contents]
    /\ run = 1
    /\ prev = NoPrev
    /\ Fresh
    /\ vx = 0 /\ vpre = <<>> /\ vbuf = <<>>

unchangedInput == UNCHANGED <<tree, content, run, prev, vx, vpre, vbuf>>

\* compile_registries, the walk: one file yielded and scanned
RegWalkFile ==
    /\ pc = "reg_walk"
    /\ \E f \in pending :
        /\ pending' = pending \ {f}
        /\ registries' = ScanFile(registries, f)
    /\ UNCHANGED <<pc, ri, packets, mappings, tags_packet_data, outFiles, swallowed, envErr>>
    /\ unchangedInput
    /\ UNCHANGED readOk

\* the files a walk loses when reading directory d fails
Below(d, files) == {f \in files : Len(f.dir) >= Len(d) /\ SubSeq(f.dir, 1, Len(d)) = d}

\* compile_registries, the walk: reading a directory fails, WalkDir yields an
\* Err and filter_map(|e| e.ok()) drops it
RegWalkError ==
    /\ pc = "reg_walk"
    /\ \E f \in pending :
        pending' = pending \ Below(f.dir, pending)
    /\ swallowed' = TRUE
    /\ envErr' = TRUE
    /\ UNCHANGED <<pc, registries, ri, packets, mappings, tags_packet_data, outFiles>>
    /\ unchangedInput
    /\ UNCHANGED readOk

\* compile_registries, the walk is over
RegWalkEnd ==
    /\ pc = "reg_walk"
    /\ pending = {}
    /\ pc' = "reg_write"
    /\ ri' = 1
    /\ UNCHANGED <<pending, registries, packets, mappings, tags_packet_data, outFiles,
                   swallowed, envErr>>
    /\ unchangedInput
    /\ UNCHANGED readOk

\* compile_registries, one iteration of the write loop
RegWritePacket ==
    /\ pc = "reg_write"
    /\ ri <= Len(registries)
    /\ LET reg_id == registries[ri].key
           entries == registries[ri].val
           buffer == RegistryPacket(reg_id, entries)
       IN  /\ packets' = Put(packets, reg_id, buffer)
           /\ mappings' = Put(mappings, reg_id, IdMap(entries))
           /\ outFiles' = Put(outFiles, FileName(reg_id), buffer)
    /\ ri' = ri + 1
    /\ UNCHANGED <<pc, pending, registries, tags_packet_data, swallowed, envErr>>
    /\ unchangedInput
    /\ UNCHANGED readOk

\* compile_registries, one iteration of the write loop in which fs::write
\* fails: the mapping is already inserted, `?` returns the error
RegWriteFail ==
    /\ pc = "reg_write"
    /\ ri <= Len(registries)
    /\ LET reg_id == registries[ri].key
           entries == registries[ri].val
       IN  /\ packets' = Put(packets, reg_id, RegistryPacket(reg_id, entries))
           /\ mappings' = Put(mappings, reg_id, IdMap(entries))
    /\ pc' = "aborted"
    /\ envErr' = TRUE
    /\ UNCHANGED <<pending, registries, ri, tags_packet_data, outFiles, swallowed>>
    /\ unchangedInput
    /\ UNCHANGED readOk

\* compile_registries returns Ok, main calls compile_tags
RegDone ==
    /\ pc = "reg_write"
    /\ ri > Len(registries)
    /\ pc' = "tag_walk"
    /\ pending' = UnderTags(tree)
    /\ UNCHANGED <<registries, ri, packets, mappings, tags_packet_data, outFiles,
                   swallowed, envErr>>
    /\ unchangedInput
    /\ UNCHANGED readOk

\* compile_tags, the walk: one file yielded; a JSON file with no directory
\* below the tag root makes components().next().unwrap() panic
TagWalkFile ==
    /\ pc = "tag_walk"
    /\ \E f \in pending :
        /\ pending' = pending \ {f}
        /\ IF ~IsJson(f)
           THEN UNCHANGED <<pc, tags_packet_data, readOk>>
           ELSE IF Len(Relative(f)) = 0
           THEN pc' = "panicked" /\ UNCHANGED <<tags_packet_data, readOk>>
           ELSE IF ~KnownRegistry(mappings, TagRegistry(f))
           THEN UNCHANGED <<pc, tags_packet_data, readOk>>
           ELSE /\ readOk' = readOk \cup {f}
                /\ tags_packet_data' =
                     RecordTag(tags_packet_data, TagRegistry(f), TagName(f),
                               ResolveIds(<<>>, ParseTagFile(content[f]),
                                          IF TagRegistry(f) \in DOMAIN mappings
                                          THEN mappings[TagRegistry(f)] ELSE Empty))
                /\ UNCHANGED pc
    /\ UNCHANGED <<registries, ri, packets, mappings, outFiles, swallowed, envErr>>
    /\ unchangedInput

\* compile_tags, the walk: fs::read_to_string fails on a tag file of a known
\* registry, `?` returns the error
TagReadFail ==
    /\ pc = "tag_walk"
    /\ \E f \in pending :
        /\ IsJson(f) /\ Len(Relative(f)) > 0 /\ KnownRegistry(mappings, TagRegistry(f))
        /\ pending' = pending \ {f}
    /\ pc' = "aborted"
    /\ envErr' = TRUE
    /\ UNCHANGED <<registries, ri, packets, mappings, tags_packet_data, outFiles, swallowed>>
    /\ unchangedInput
    /\ UNCHANGED readOk

\* compile_tags, the walk: a directory read fails and the Err is dropped
TagWalkError ==
    /\ pc = "tag_walk"
    /\ \E f \in pending :
        pending' = pending \ Below(f.dir, pending)
    /\ swallowed' = TRUE
    /\ envErr' = TRUE
    /\ UNCHANGED <<pc, registries, ri, packets, mappings, tags_packet_data, outFiles>>
    /\ unchangedInput
    /\ UNCHANGED readOk

\* compile_tags, after the walk: packet_tags.bin is built and written
TagWritePacket ==
    /\ pc = "tag_walk"
    /\ pending = {}
    /\ outFiles' = Put(outFiles, PACKET_TAGS, TagsPacket(tags_packet_data))
    /\ pc' = "done"
    /\ UNCHANGED <<pending, registries, ri, packets, mappings, tags_packet_data,
                   swallowed, envErr>>
    /\ unchangedInput
    /\ UNCHANGED readOk

\* compile_tags, after the walk: fs::write of packet_tags.bin fails
TagWriteFail ==
    /\ pc = "tag_walk"
    /\ pending = {}
    /\ pc' = "aborted"
    /\ envErr' = TRUE
    /\ UNCHANGED <<pending, registries, ri, packets, mappings, tags_packet_data, outFiles,
                   swallowed>>
    /\ unchangedInput
    /\ UNCHANGED readOk

Ended == pc \in {"done", "panicked", "aborted"}

\* main is invoked again on the same tree, after an invocation in which no
\* I/O call failed: the output directory is cleared and rebuilt
Rerun ==
    /\ run = 1
    /\ Ended
    /\ ~envErr
    /\ run' = 2
    /\ prev' = [pc |-> pc, outFiles |-> outFiles, mappings |-> mappings, clean |-> TRUE]
    /\ pc' = "reg_walk"
    /\ pending' = tree
    /\ registries' = <<>>
    /\ ri' = 1
    /\ packets' = Empty
    /\ mappings' = Empty
    /\ tags_packet_data' = <<>>
    /\ outFiles' = Empty
    /\ swallowed' = FALSE
    /\ envErr' = FALSE
    /\ readOk' = {}
    /\ UNCHANGED <<tree, content, vx, vpre, vbuf>>

Next ==
    \/ RegWalkFile
    \/ RegWalkError
    \/ RegWalkEnd
    \/ RegWritePacket
    \/ RegWriteFail
    \/ RegDone
    \/ TagWalkFile
    \/ TagReadFail
    \/ TagWalkError
    \/ TagWritePacket
    \/ TagWriteFail
    \/ Rerun

Spec == Init /\ [][Next]_vars

----------------------------------------------------------------------------
(* write_varint on its own *)

Pow128(k) == IF k = 0 THEN 1 ELSE IF k = 1 THEN 128 ELSE IF k = 2 THEN 16384
             ELSE IF k = 3 THEN 2097152 ELSE 268435456

I32Max == 2147483647

\* the values around every length boundary of the encoding, and the largest
VarintInputs ==
    {x \in UNION {(Pow128(k) - VarintWindow)..(Pow128(k) + VarintWindow) : k \in 0..4} :
        x >= 0}
    \cup {I32Max - d : d \in 0..VarintWindow}

InitVarint ==
    /\ tree = {}
    /\ content = Empty
    /\ run = 1
    /\ prev = NoPrev
    /\ pc = "varint"
    /\ pending = {}
    /\ registries = <<>>
    /\ ri = 1
    /\ packets = Empty
    /\ mappings = Empty
    /\ tags_packet_data = <<>>
    /\ outFiles = Empty
    /\ swallowed = FALSE
    /\ envErr = FALSE
    /\ readOk = {}
    /\ vx = 0 /\ vpre = <<>> /\ vbuf = <<>>

\* write_varint(&mut buf, value) on a buffer that is empty or not
ApplyVarint ==
    /\ pc \in {"varint", "varint_done"}
    /\ \E x \in VarintInputs, pre \in {<<>>, <<255, 0>>} :
        /\ vx' = x
        /\ vpre' = pre
        /\ vbuf' = write_varint(pre, x)
    /\ pc' = "varint_done"
    /\ UNCHANGED <<tree, content, run, prev, pending, registries, ri, packets, mappings,
                   tags_packet_data, outFiles, swallowed, envErr, readOk>>

NextVarint == ApplyVarint

SpecVarint == InitVarint /\ [][NextVarint]_vars

----------------------------------------------------------------------------
(* Decoding, as a reader of the packets does it *)

\* 7 payload bits per byte, low-order group first, up to and including the
\* first byte with the high bit clear; val = -1 when the bytes run out
RECURSIVE ReadVarintFrom(_, _, _, _)
ReadVarintFrom(bytes, pos, acc, mult) ==
    IF pos > Len(bytes) THEN [val |-> -1, next |-> pos]
    ELSE IF bytes[pos] >= 128
    THEN ReadVarintFrom(bytes, pos + 1, acc + (bytes[pos] - 128) * mult, mult * 128)
    ELSE [val |-> acc + bytes[pos] * mult, next |-> pos + 1]

ReadVarint(bytes, pos) == ReadVarintFrom(bytes, pos, 0, 1)

ReadString(bytes, pos) ==
    LET n == ReadVarint(bytes, pos)
    IN  IF n.val < 0 \/ n.next + n.val - 1 > Len(bytes) THEN [val |-> <<>>, next |-> Len(bytes) + 2]
        ELSE [val |-> SubSeq(bytes, n.next, n.next + n.val - 1), next |-> n.next + n.val]

\* n times String . 0x00
RECURSIVE ReadEntries(_, _, _)
ReadEntries(bytes, pos, n) ==
    IF n <= 0 THEN [val |-> <<>>, next |-> pos]
    ELSE LET e == ReadString(bytes, pos)
             marker == IF e.next <= Len(bytes) /\ bytes[e.next] = 0 THEN e.next + 1
                       ELSE Len(bytes) + 2
             rest == ReadEntries(bytes, marker, n - 1)
         IN  [val |-> <<e.val>> \o rest.val, next |-> rest.next]

\* a registry packet read back: ok when it is read to its last byte exactly
DecodeRegistryPacket(bytes) ==
    LET reg == ReadString(bytes, 1)
        cnt == ReadVarint(bytes, reg.next)
        ents == ReadEntries(bytes, cnt.next, cnt.val)
    IN  [reg |-> reg.val, count |-> cnt.val, entries |-> ents.val,
         ok |-> ents.next = Len(bytes) + 1]

RECURSIVE ReadIds(_, _, _)
ReadIds(bytes, pos, n) ==
    IF n <= 0 THEN [val |-> <<>>, next |-> pos]
    ELSE LET id == ReadVarint(bytes, pos)
             rest == ReadIds(bytes, id.next, n - 1)
         IN  [val |-> <<id.val>> \o rest.val, next |-> rest.next]

RECURSIVE ReadTags(_, _, _)
ReadTags(bytes, pos, n) ==
    IF n <= 0 THEN [val |-> <<>>, next |-> pos]
    ELSE LET name == ReadString(bytes, pos)
             cnt == ReadVarint(bytes, name.next)
             ids == ReadIds(bytes, cnt.next, cnt.val)
             rest == ReadTags(bytes, ids.next, n - 1)
         IN  [val |-> <<[key |-> name.val, count |-> cnt.val, val |-> ids.val]>> \o rest.val,
              next |-> rest.next]

RECURSIVE ReadTagRegistries(_, _, _)
ReadTagRegistries(bytes, pos, n) ==
    IF n <= 0 THEN [val |-> <<>>, next |-> pos]
    ELSE LET name == ReadString(bytes, pos)
             cnt == ReadVarint(bytes, name.next)
             tags == ReadTags(bytes, cnt.next, cnt.val)
             rest == ReadTagRegistries(bytes, tags.next, n - 1)
         IN  [val |-> <<[key |-> name.val, count |-> cnt.val, val |-> tags.val]>> \o rest.val,
              next |-> rest.next]

\* packet_tags.bin read back
DecodeTagsPacket(bytes) ==
    LET cnt == ReadVarint(bytes, 1)
        regs == ReadTagRegistries(bytes, cnt.next, cnt.val)
    IN  [count |-> cnt.val, regs |-> regs.val, ok |-> regs.next = Len(bytes) + 1]

StrictlyIncreasing(names) ==
    \A i \in 1..(Len(names) - 1) : StrLess(names[i], names[i + 1])

Keys(m) == [i \in 1..Len(m) |-> m[i].key]

\* the tag files compile_tags reads: JSON, below a registry directory of the
\* tag root
TagFiles == {f \in UnderTags(tree) : IsJson(f) /\ Len(Relative(f)) > 0}

TagsWritten == pc = "done" /\ PACKET_TAGS \in DOMAIN outFiles

\* the IDs recorded for the tag of file f, and those packet_tags.bin holds
RecordedIds(f) == BTreeMapGet(BTreeMapGet(tags_packet_data, TagRegistry(f)), TagName(f))

Recorded(f) ==
    /\ BTreeMapHas(tags_packet_data, TagRegistry(f))
    /\ BTreeMapHas(BTreeMapGet(tags_packet_data, TagRegistry(f)), TagName(f))

PacketTag(f) ==
    BTreeMapGet(BTreeMapGet(DecodeTagsPacket(outFiles[PACKET_TAGS]).regs, TagRegistry(f)),
                TagName(f))

InPacket(f) ==
    LET regs == DecodeTagsPacket(outFiles[PACKET_TAGS]).regs
    IN  BTreeMapHas(regs, TagRegistry(f)) /\ BTreeMapHas(BTreeMapGet(regs, TagRegistry(f)), TagName(f))

IdsOf(id_map) == {id_map[e] : e \in DOMAIN id_map}

----------------------------------------------------------------------------
(* Claims *)

\* the listed values in order, without the '#' values and the values that
\* are no key of the map, each replaced by its ID
ExpectedIds(values, id_map) ==
    LET Direct(v) == ~(Len(v) > 0 /\ v[1] = HASH) /\ v \in DOMAIN id_map
        kept == SelectSeq(values, Direct)
    IN  [k \in 1..Len(kept) |-> id_map[kept[k]]]

\* C1: the ID list recorded for a well-formed tag file of a known registry is
\* its values in order, without those starting with '#' and those that are no
\* entry of the registry, each replaced by its mapped ID (order kept, a value
\* listed twice gives its ID twice); every ID is an ID of the registry's
\* mapping; entries {a -> 0, b -> 1} and values [a, #a, unknown] give [0];
\* packet_tags.bin holds the same list.
C1_TagResolution ==
    \A f \in readOk :
        content[f].kind = "ok" =>
            /\ Recorded(f)
            /\ RecordedIds(f) = ExpectedIds(content[f].values, mappings[TagRegistry(f)])
            /\ Range(RecordedIds(f)) \subseteq IdsOf(mappings[TagRegistry(f)])
            /\ (/\ content[f].values = <<V_A, V_INDIRECT, V_UNKNOWN>>
                /\ V_A \in DOMAIN mappings[TagRegistry(f)]
                /\ mappings[TagRegistry(f)][V_A] = 0) => RecordedIds(f) = <<0>>
            /\ TagsWritten =>
                /\ InPacket(f)
                /\ PacketTag(f) = RecordedIds(f)

C1_Witness ==
    \E f \in readOk :
        /\ content[f].values = <<V_B, V_INDIRECT, V_UNKNOWN, V_A, V_B>>
        /\ Recorded(f)
        /\ RecordedIds(f) = <<1, 0, 1>>
        /\ TagsWritten

\* the entry names of the JSON files the registry walk groups under reg
EntriesInTree(reg) ==
    {EntryName(f) : f \in {g \in tree : IsJson(g) /\ ~InTagsFolder(g) /\ RegistryName(g) = reg}}

\* C2: in every registry packet the entries are in strictly increasing
\* lexicographic order, the mapped ID of an entry is its 0-based position in
\* the packet, the IDs are pairwise distinct and are exactly 0..N-1, and the
\* VarInt count of the header is N, the number of distinct entries.
C2_RegistryIds ==
    \A reg \in DOMAIN packets :
        LET d == DecodeRegistryPacket(packets[reg])
            id_map == mappings[reg]
            N == Cardinality(DOMAIN id_map)
        IN  /\ d.ok
            /\ d.reg = reg
            /\ StrictlyIncreasing(d.entries)
            /\ Range(d.entries) = DOMAIN id_map
            /\ \A i \in 1..Len(d.entries) : id_map[d.entries[i]] = i - 1
            /\ \A e1, e2 \in DOMAIN id_map : e1 /= e2 => id_map[e1] /= id_map[e2]
            /\ IdsOf(id_map) = 0..(N - 1)
            /\ d.count = N
            /\ Len(d.entries) = N
            /\ ~swallowed => DOMAIN id_map = EntriesInTree(reg)

C2_Witness ==
    \E reg \in DOMAIN packets :
        /\ Cardinality(DOMAIN mappings[reg]) >= 3
        /\ DecodeRegistryPacket(packets[reg]).count = 3
        /\ FileName(reg) \in DOMAIN outFiles

C4_VarintRoundTrip ==
    pc = "varint_done" =>
        LET n == Len(vpre)
            enc == SubSeq(vbuf, n + 1, Len(vbuf))
        IN  /\ vx \in 0..I32Max
            /\ Len(vbuf) > n
            /\ SubSeq(vbuf, 1, n) = vpre
            /\ \A i \in 1..(Len(enc) - 1) : enc[i] \in 128..255
            /\ enc[Len(enc)] \in 0..127
            /\ ReadVarint(enc, 1) = [val |-> vx, next |-> Len(enc) + 1]

C4_Witness ==
    /\ pc = "varint_done"
    /\ vx = I32Max
    /\ vpre = <<255, 0>>
    /\ Len(vbuf) = 7

\* C5: a tag file whose registry is no key of the mapping is not read and
\* records no tag, and its registry is no key of the tag data; every
\* registry key of packet_tags.bin is a key of the mapping and the VarInt
\* registry count is the number of registries that have a tag file read.
C5_UnknownRegistrySkip ==
    /\ \A i \in 1..Len(tags_packet_data) : tags_packet_data[i].key \in DOMAIN mappings
    /\ pc \in {"tag_walk", "done", "panicked", "aborted"} =>
            \A f \in TagFiles :
                TagRegistry(f) \notin DOMAIN mappings =>
                    /\ f \notin readOk
                    /\ ~BTreeMapHas(tags_packet_data, TagRegistry(f))
    /\ TagsWritten =>
            LET d == DecodeTagsPacket(outFiles[PACKET_TAGS])
            IN  /\ d.ok
                /\ Range(Keys(d.regs)) \subseteq DOMAIN mappings
                /\ Range(Keys(d.regs)) = {TagRegistry(f) : f \in readOk}
                /\ d.count = Cardinality({TagRegistry(f) : f \in readOk})

C5_Witness ==
    /\ TagsWritten
    /\ ~swallowed
    /\ \E f \in TagFiles : TagRegistry(f) \notin DOMAIN mappings
    /\ DecodeTagsPacket(outFiles[PACKET_TAGS]).count = 1

C7_OneFilePerRegistry ==
    pc \in {"tag_walk", "done", "panicked"} =>
        /\ Cardinality(DOMAIN outFiles \ {PACKET_TAGS}) = Cardinality(DOMAIN mappings)
        /\ \A reg \in DOMAIN mappings :
            /\ FileName(reg) \in DOMAIN outFiles
            /\ outFiles[FileName(reg)] = packets[reg]

\* C8: a run in which a directory read or a file write failed does not
\* complete successfully.
C8_IoFailuresFatal == pc = "done" => ~envErr

\* C9: a JSON file directly at the tree root adds no registry and no packet
\* file: every registry of the mapping comes from a JSON file with a
\* non-empty parent directory.
C9_RootFileSkipped ==
    /\ \A reg \in DOMAIN mappings :
            \E f \in tree : IsJson(f) /\ Len(f.dir) > 0 /\ RegistryName(f) = reg
    /\ FileName(Namespaced(<<>>)) \notin DOMAIN outFiles

\* C10: a JSON file directly in the tag root is skipped: the run does not
\* crash, and a run in which no I/O call fails ends with packet_tags.bin
\* written.
C10_TagRootFileSkipped ==
    /\ pc /= "panicked"
    /\ (Ended /\ ~envErr) => TagsWritten

====
